---- MODULE Spec2Model ----
(***************************************************************************)
(* Model of slavak-public-partners-register/app.py: the resumable crawl    *)
(* of SlovakPartnerScraper (constructor, run, save_to_json and the entry   *)
(* point that chains them) together with the two files it keeps on disk.   *)
(*                                                                         *)
(* A Source URL is BASE_URL followed by the partner id, so a URL is        *)
(* represented by its trailing numeric id (the key the cache is sorted by).*)
(* A process is one execution of the entry point; it can be terminated at  *)
(* any step, and every open() / json.dump() on a file can raise OSError.   *)
(***************************************************************************)
EXTENDS Integers, Sequences, FiniteSets, TLC

\* ---- bounds of the model ------------------------------------------------
MaxId == 2        \* partner ids are 1..MaxId
MaxRuns == 2      \* number of processes started one after the other

Ids == 1..MaxId

VARIABLES
    pc,             \* position of the process; "off" when no process runs
    start,          \* self.start
    end,            \* self.end
    partner_id,     \* loop variable of run
    all_data,       \* self.all_data: sequence of Records
    processed_ids,  \* self.processed_ids: set of URLs
    cache_file,     \* the cache file on disk
    output_file,    \* the records file on disk
    state,          \* state of the current id in the per-id state machine
    runNo,          \* number of processes started so far
    fetched,        \* ids for which requests.get was called in this process
    loaded,         \* Len(all_data) when __init__ returned
    writeFailed,    \* first id of this run at which a write raised; 0 if none
    retry,          \* ids whose last processing ended without a Record
    pagesOk,        \* so far every fetched page gave a Record
    writesOk,       \* so far no open or write of a file raised
    saved,          \* ids that reached SAVED in this process
    consistent,     \* every URL loaded by __init__ had a Record loaded with it
    prev,           \* how the previous process ended, and what it had saved
    arg,            \* argument of the parsing function under study
    res             \* what the function returned, one entry per call

vars == <<pc, start, end, partner_id, all_data, processed_ids, cache_file,
          output_file, state, runNo, fetched, loaded, writeFailed, retry,
          pagesOk, writesOk, saved, consistent, prev, arg, res>>

\* ---- files --------------------------------------------------------------
\* A file is absent, empty (just truncated by open(..., "w")), partial (some
\* buffered chunks of json.dump flushed) or full (closed after json.dump).
Absent == [st |-> "absent", data |-> <<>>]
Truncated == [st |-> "empty", data |-> <<>>]
Partial == [st |-> "partial", data |-> <<>>]
Full(d) == [st |-> "full", data |-> d]

\* os.path.exists(file)
Exists(f) == f.st # "absent"
\* json.load(f) succeeds only on a complete document
Loadable(f) == f.st = "full"

\* A Record; only the key field is kept.
Record(id) == [SourceURL |-> id]

\* Faulty variant of SortedUrls: the list is written in descending order.
RECURSIVE SortedUrls_Descending(_)
SortedUrls_Descending(S) ==
    IF S = {} THEN <<>>
    ELSE LET m == CHOOSE x \in S : \A y \in S : x >= y
         IN <<m>> \o SortedUrls_Descending(S \ {m})

\* sorted(list(processed_ids), key=lambda x: int(x.split("/")[-1]))
RECURSIVE SortedUrls(_)
SortedUrls(S) ==
    IF S = {} THEN <<>>
    ELSE LET m == CHOOSE x \in S : \A y \in S : x <= y
         IN <<m>> \o SortedUrls(S \ {m})

Range(s) == {s[i] : i \in 1..Len(s)}
Urls(recs) == {recs[i].SourceURL : i \in 1..Len(recs)}

NoRun == [how |-> "none", start |-> 0, end |-> 0, saved |-> {}]

\* Positions inside SlovakPartnerScraper.run
RunPcs == {"loop", "cache_open", "cache_write", "out_open", "out_write", "next"}

Init ==
    /\ pc = "off"
    /\ start = 0
    /\ end = 0
    /\ partner_id = 0
    /\ all_data = <<>>
    /\ processed_ids = {}
    /\ cache_file = Absent
    /\ output_file = Absent
    /\ state = "NONE"
    /\ runNo = 0
    /\ fetched = {}
    /\ loaded = 0
    /\ writeFailed = 0
    /\ retry = {}
    /\ pagesOk = TRUE
    /\ writesOk = TRUE
    /\ saved = {}
    /\ consistent = TRUE
    /\ prev = NoRun
    /\ arg = [fn |-> "none"]
    /\ res = <<>>

\* The process is gone: its memory is lost, the files stay as they are.
\* A process terminated inside run leaves its range and saved ids on record.
Stop(how) ==
    /\ pc' = "off"
    /\ start' = 0
    /\ end' = 0
    /\ partner_id' = 0
    /\ all_data' = <<>>
    /\ processed_ids' = {}
    /\ state' = "NONE"
    /\ fetched' = {}
    /\ loaded' = 0
    /\ writeFailed' = 0
    /\ saved' = {}
    /\ consistent' = TRUE
    /\ prev' = IF how = "killed" /\ pc \in RunPcs
                THEN [how |-> how, start |-> start, end |-> end,
                   saved |-> saved]
                ELSE [NoRun EXCEPT !.how = how]

\* ---- SlovakPartnerScraper.__init__ ----------------------------------------
\* json.load raises on a file that exists and is not a complete document.
LoadFails ==
    \/ Exists(cache_file) /\ ~Loadable(cache_file)
    \/ Exists(output_file) /\ ~Loadable(output_file)

LoadCache == IF Exists(cache_file) THEN Range(cache_file.data) ELSE {}
LoadRecords == IF Exists(output_file) THEN output_file.data ELSE <<>>

Construct(s, e) ==
    /\ pc = "off"
    /\ runNo < MaxRuns
    /\ ~LoadFails
    /\ runNo' = runNo + 1
    /\ start' = s
    /\ end' = e
    /\ processed_ids' = LoadCache
    /\ all_data' = LoadRecords
    /\ loaded' = Len(LoadRecords)
    /\ partner_id' = s
    /\ state' = "PENDING"
    /\ pc' = "loop"
    /\ fetched' = {}
    /\ saved' = {}
    /\ writeFailed' = 0
    /\ consistent' = (LoadCache \subseteq Urls(LoadRecords))
    /\ UNCHANGED <<cache_file, output_file, retry, pagesOk, writesOk, prev>>

ConstructRaises ==
    /\ pc = "off"
    /\ runNo < MaxRuns
    /\ LoadFails
    /\ runNo' = runNo + 1
    /\ prev' = [NoRun EXCEPT !.how = "crashed"]
    /\ UNCHANGED <<pc, start, end, partner_id, all_data, processed_ids,
                   cache_file, output_file, state, fetched, loaded,
                   writeFailed, retry, pagesOk, writesOk, saved, consistent>>

\* ---- SlovakPartnerScraper.run ---------------------------------------------
\* for partner_id in range(self.start, self.end+1): exhausted
RunReturns ==
    /\ pc = "loop"
    /\ partner_id > end
    /\ pc' = "ret"
    /\ state' = "NONE"
    /\ UNCHANGED <<start, end, partner_id, all_data, processed_ids,
                   cache_file, output_file, runNo, fetched, loaded,
                   writeFailed, retry, pagesOk, writesOk, saved, consistent,
                   prev>>

\* Faulty variant of CacheHit: the membership test is ignored and the id is
\* fetched and appended again.
CacheHit_Refetch ==
    /\ pc = "loop"
    /\ partner_id <= end
    /\ partner_id \in processed_ids
    /\ fetched' = fetched \cup {partner_id}
    /\ all_data' = Append(all_data, [SourceURL |-> partner_id])
    /\ pc' = "cache_open"
    /\ state' = "EXTRACTED"
    /\ UNCHANGED <<start, end, partner_id, processed_ids, cache_file,
                   output_file, runNo, loaded, writeFailed, retry, pagesOk,
                   writesOk, saved, consistent, prev>>

\* if url in self.processed_ids: continue
CacheHit ==
    /\ pc = "loop"
    /\ partner_id <= end
    /\ partner_id \in processed_ids
    /\ pc' = "next"
    /\ state' = "SKIPPED"
    /\ UNCHANGED <<start, end, partner_id, all_data, processed_ids,
                   cache_file, output_file, runNo, fetched, loaded,
                   writeFailed, retry, pagesOk, writesOk, saved, consistent,
                   prev>>

\* A cache miss: scrape_partner is called and requests.get fetches the page.
Miss ==
    /\ pc = "loop"
    /\ partner_id <= end
    /\ partner_id \notin processed_ids
    /\ fetched' = fetched \cup {partner_id}

\* scrape_partner returned None or raised: nothing is appended or written.
NoRecord(terminal) ==
    /\ Miss
    /\ pc' = "next"
    /\ state' = terminal
    /\ retry' = retry \cup {partner_id}
    /\ pagesOk' = FALSE
    /\ UNCHANGED <<start, end, partner_id, all_data, processed_ids,
                   cache_file, output_file, runNo, loaded, writeFailed,
                   writesOk, saved, consistent, prev>>

\* response.status_code != 200: warning, return None
FetchFailed == NoRecord("SKIPPED_WITH_WARNING")

\* Faulty variant of ExtractError: no try/except around scrape_partner, the
\* exception leaves run and ends the process.
ExtractError_Propagates ==
    /\ pc = "loop"
    /\ partner_id <= end
    /\ partner_id \notin processed_ids
    /\ Stop("crashed")
    /\ retry' = retry \cup {partner_id}
    /\ pagesOk' = FALSE
    /\ UNCHANGED <<cache_file, output_file, runNo, writesOk>>

\* requests.get or the parsing raised: caught by except Exception in run
ExtractError == NoRecord("SKIPPED_WITH_WARNING")

\* Faulty variant of EmptyResult: the URL of a page without owners is put in
\* the cache set.
EmptyResult_Cached ==
    /\ Miss
    /\ pc' = "next"
    /\ state' = "SKIPPED"
    /\ processed_ids' = processed_ids \cup {partner_id}
    /\ retry' = retry \cup {partner_id}
    /\ pagesOk' = FALSE
    /\ UNCHANGED <<start, end, partner_id, all_data, cache_file, output_file,
                   runNo, loaded, writeFailed, writesOk, saved, consistent,
                   prev>>

\* parse_bo_table found no owner row: warning, return None
EmptyResult == NoRecord("SKIPPED")

\* Faulty variant of Extracted: the URL is added to the cache set and the
\* Record is not appended.
Extracted_NoAppend ==
    /\ Miss
    /\ processed_ids' = processed_ids \cup {partner_id}
    /\ pc' = "cache_open"
    /\ state' = "EXTRACTED"
    /\ retry' = retry \ {partner_id}
    /\ UNCHANGED <<start, end, partner_id, all_data, cache_file, output_file,
                   runNo, loaded, writeFailed, pagesOk, writesOk, saved,
                   consistent, prev>>

\* Faulty variant of Extracted: the Record is put in front of the collection.
Extracted_Prepend ==
    /\ Miss
    /\ all_data' = <<[SourceURL |-> partner_id]>> \o all_data
    /\ processed_ids' = processed_ids \cup {partner_id}
    /\ pc' = "cache_open"
    /\ state' = "EXTRACTED"
    /\ retry' = retry \ {partner_id}
    /\ UNCHANGED <<start, end, partner_id, cache_file, output_file, runNo,
                   loaded, writeFailed, pagesOk, writesOk, saved, consistent,
                   prev>>

\* scrape_partner returned a Record: append, add the URL to the cache set
Extracted ==
    /\ Miss
    /\ all_data' = Append(all_data, Record(partner_id))
    /\ processed_ids' = processed_ids \cup {partner_id}
    /\ pc' = "cache_open"
    /\ state' = "EXTRACTED"
    /\ retry' = retry \ {partner_id}
    /\ UNCHANGED <<start, end, partner_id, cache_file, output_file, runNo,
                   loaded, writeFailed, pagesOk, writesOk, saved, consistent,
                   prev>>

\* ---- the two writes of a saved id (run, lines 232-238) ----------------------
\* An OSError raised inside the try block is caught by except Exception:
\* a warning is logged and the loop goes on with the next id.
WriteRaises ==
    /\ pc' = "next"
    /\ state' = "SKIPPED_WITH_WARNING"
    /\ writeFailed' = IF writeFailed = 0 THEN partner_id ELSE writeFailed
    /\ writesOk' = FALSE
    /\ UNCHANGED <<start, end, partner_id, all_data, processed_ids, runNo,
                   fetched, loaded, retry, pagesOk, saved, consistent, prev>>

\* with open(self.cache_file, "w") as f: the file is truncated
OpenCache ==
    /\ pc = "cache_open"
    /\ cache_file' = Truncated
    /\ pc' = "cache_write"
    /\ UNCHANGED <<start, end, partner_id, all_data, processed_ids,
                   output_file, state, runNo, fetched, loaded, writeFailed,
                   retry, pagesOk, writesOk, saved, consistent, prev>>

\* open raises (permissions, missing directory, ...): the file is untouched
OpenCacheRaises ==
    /\ pc = "cache_open"
    /\ WriteRaises
    /\ UNCHANGED <<cache_file, output_file>>

\* json.dump is under way and the buffer is flushed once: part of the text
\* is on disk
FlushCache ==
    /\ pc = "cache_write"
    /\ cache_file.st = "empty"
    /\ cache_file' = Partial
    /\ UNCHANGED <<pc, start, end, partner_id, all_data, processed_ids,
                   output_file, state, runNo, fetched, loaded, writeFailed,
                   retry, pagesOk, writesOk, saved, consistent, prev>>

\* json.dump(sorted_urls, f) completes and the with block closes the file
DumpCache ==
    /\ pc = "cache_write"
    /\ cache_file' = Full(SortedUrls(processed_ids))
    /\ pc' = "out_open"
    /\ UNCHANGED <<start, end, partner_id, all_data, processed_ids,
                   output_file, state, runNo, fetched, loaded, writeFailed,
                   retry, pagesOk, writesOk, saved, consistent, prev>>

\* a write raises (disk full, I/O error): the file keeps what reached the disk
DumpCacheRaises ==
    /\ pc = "cache_write"
    /\ WriteRaises
    /\ UNCHANGED <<cache_file, output_file>>

\* with open(self.output_file, "w", encoding="utf-8") as f
OpenOutput ==
    /\ pc = "out_open"
    /\ output_file' = Truncated
    /\ pc' = "out_write"
    /\ UNCHANGED <<start, end, partner_id, all_data, processed_ids,
                   cache_file, state, runNo, fetched, loaded, writeFailed,
                   retry, pagesOk, writesOk, saved, consistent, prev>>

OpenOutputRaises ==
    /\ pc = "out_open"
    /\ WriteRaises
    /\ UNCHANGED <<cache_file, output_file>>

FlushOutput ==
    /\ pc = "out_write"
    /\ output_file.st = "empty"
    /\ output_file' = Partial
    /\ UNCHANGED <<pc, start, end, partner_id, all_data, processed_ids,
                   cache_file, state, runNo, fetched, loaded, writeFailed,
                   retry, pagesOk, writesOk, saved, consistent, prev>>

\* json.dump(self.all_data, f) completes, the file is closed, time.sleep(delay)
DumpOutput ==
    /\ pc = "out_write"
    /\ output_file' = Full(all_data)
    /\ pc' = "next"
    /\ state' = "SAVED"
    /\ saved' = saved \cup {partner_id}
    /\ UNCHANGED <<start, end, partner_id, all_data, processed_ids,
                   cache_file, runNo, fetched, loaded, writeFailed, retry,
                   pagesOk, writesOk, consistent, prev>>

DumpOutputRaises ==
    /\ pc = "out_write"
    /\ WriteRaises
    /\ UNCHANGED <<cache_file, output_file>>

\* the for loop takes the next partner_id
Advance ==
    /\ pc = "next"
    /\ partner_id' = partner_id + 1
    /\ pc' = "loop"
    /\ state' = "PENDING"
    /\ UNCHANGED <<start, end, all_data, processed_ids, cache_file,
                   output_file, runNo, fetched, loaded, writeFailed, retry,
                   pagesOk, writesOk, saved, consistent, prev>>

\* ---- SlovakPartnerScraper.save_to_json, called by the entry point ----------
SaveOpen ==
    /\ pc = "ret"
    /\ output_file' = Truncated
    /\ pc' = "final_write"
    /\ UNCHANGED <<start, end, partner_id, all_data, processed_ids,
                   cache_file, state, runNo, fetched, loaded, writeFailed,
                   retry, pagesOk, writesOk, saved, consistent, prev>>

\* nothing catches an OSError here: the process ends with a traceback
SaveOpenRaises ==
    /\ pc = "ret"
    /\ Stop("crashed")
    /\ UNCHANGED <<cache_file, output_file, runNo, retry, pagesOk, writesOk>>

SaveFlush ==
    /\ pc = "final_write"
    /\ output_file.st = "empty"
    /\ output_file' = Partial
    /\ UNCHANGED <<pc, start, end, partner_id, all_data, processed_ids,
                   cache_file, state, runNo, fetched, loaded, writeFailed,
                   retry, pagesOk, writesOk, saved, consistent, prev>>

\* json.dump completes; the entry point logs the times and the process exits
SaveDump ==
    /\ pc = "final_write"
    /\ output_file' = Full(all_data)
    /\ Stop("exit")
    /\ UNCHANGED <<cache_file, runNo, retry, pagesOk, writesOk>>

SaveDumpRaises ==
    /\ pc = "final_write"
    /\ Stop("crashed")
    /\ UNCHANGED <<cache_file, output_file, runNo, retry, pagesOk, writesOk>>

\* ---- the environment ------------------------------------------------------
\* The process is terminated (SIGKILL, power loss, Ctrl-C) wherever it is.
Kill ==
    /\ pc # "off"
    /\ Stop("killed")
    /\ UNCHANGED <<cache_file, output_file, runNo, retry, pagesOk, writesOk>>

RunStep ==
    \/ RunReturns
    \/ CacheHit
    \/ FetchFailed
    \/ ExtractError
    \/ EmptyResult
    \/ Extracted
    \/ OpenCache
    \/ FlushCache
    \/ DumpCache
    \/ OpenOutput
    \/ FlushOutput
    \/ DumpOutput
    \/ Advance

Fault ==
    \/ OpenCacheRaises
    \/ DumpCacheRaises
    \/ OpenOutputRaises
    \/ DumpOutputRaises

Main ==
    \/ \E s \in Ids : \E e \in s..MaxId : Construct(s, e)
    \/ ConstructRaises
    \/ SaveOpen
    \/ SaveFlush
    \/ SaveDump
    \/ SaveOpenRaises
    \/ SaveDumpRaises

\* The crawl does not touch the variables of the parsing functions.
Next == (RunStep \/ Fault \/ Main \/ Kill) /\ UNCHANGED <<arg, res>>

Spec == Init /\ [][Next]_vars

\* The interpreter executes run statement by statement: the fetch has a
\* timeout, the sleep is finite, so the step in progress is eventually taken.
LiveSpec ==
    Init /\ [][Next]_vars /\ WF_vars(RunStep /\ UNCHANGED <<arg, res>>)

\* ---- what the files hold ---------------------------------------------------
\* The URLs a reader finds in the cache file, the Records in the records file:
\* none in a file that is absent, empty or cut short.
CacheOnDisk == IF Loadable(cache_file) THEN Range(cache_file.data) ELSE {}
RecordsOnDisk == IF Loadable(output_file) THEN output_file.data ELSE <<>>

IsPrefix(s, t) == Len(s) <= Len(t) /\ \A i \in 1..Len(s) : s[i] = t[i]
NoDuplicateUrl(recs) ==
    \A i, j \in 1..Len(recs) : i # j => recs[i].SourceURL # recs[j].SourceURL
Ascending(recs) ==
    \A i, j \in 1..Len(recs) : i < j => recs[i].SourceURL < recs[j].SourceURL
RecordsOf(s, e) == [i \in 1..(e - s + 1) |-> Record(s + i - 1)]

\* C1: at every point of run at which the process can be terminated, every
\* URL in the cache file on disk has a Record in the records file on disk,
\* provided the files loaded at construction were consistent or absent.
C1_CacheFileWithinRecordsFile ==
    (pc \in RunPcs /\ consistent) => CacheOnDisk \subseteq Urls(RecordsOnDisk)

\* C2: when every page yields a Record and no write fails, a run killed
\* after some id was SAVED and run again over the same range fetches none
\* of the ids the first run saved, and when the second run returns the
\* records file holds the Records of start..end once each, ascending.
C2_Resumable ==
    (/\ prev.how = "killed"
     /\ prev.saved # {}
     /\ pagesOk /\ writesOk
     /\ pc \in RunPcs \cup {"ret"}
     /\ start = prev.start
     /\ end = prev.end)
    => /\ fetched \cap prev.saved = {}
       /\ pc = "ret" => RecordsOnDisk = RecordsOf(start, end)

\* C3: once a write of the cache file or the records file has failed while
\* saving id n, run fetches no id greater than n.
C3_WriteFailureStopsRun ==
    writeFailed # 0 => \A m \in fetched : m <= writeFailed

\* C4: whenever the process has stopped, each of the two files is absent or
\* a complete document, never empty or cut short.
C4_FilesCompleteWhenStopped ==
    pc = "off" => /\ cache_file.st \in {"absent", "full"}
                  /\ output_file.st \in {"absent", "full"}

\* C5: a Record present in the records file on disk is present, unchanged
\* and at the same position, in every later state of that file.
C5_RecordsFileOnlyGrows ==
    [][IsPrefix(RecordsOnDisk, RecordsOnDisk')]_vars

\* C6: no two Records of the collection, and no two Records of the records
\* file, have the same Source URL.
C6_SourceUrlUnique ==
    NoDuplicateUrl(all_data) /\ NoDuplicateUrl(RecordsOnDisk)

Terminal == {"SAVED", "SKIPPED", "SKIPPED_WITH_WARNING"}

\* C7: when the fetch of an id ends without a Record (non-success status,
\* exception, no owners), the collection, the processed-URL set and both
\* files are unchanged; and when the turn of such an id comes in a later
\* run, it is fetched again.
C7_NoRecordNoChange ==
    [][/\ (pc = "loop" /\ partner_id \notin processed_ids /\ pc' = "next")
          => /\ UNCHANGED <<all_data, processed_ids, cache_file, output_file>>
             /\ partner_id \in retry'
       /\ (pc = "loop" /\ partner_id <= end /\ partner_id \in retry
           /\ pc' # "off")
          => (partner_id \in fetched' /\ partner_id \notin fetched)]_vars

\* an id that ended without a Record in an earlier run has its turn again,
\* with Records already collected
C7_Witness ==
    /\ pc = "loop"
    /\ partner_id <= end
    /\ partner_id \in retry
    /\ Len(all_data) > 0

\* C8: run visits the ids of start..end once each in ascending order, fetches
\* each at most once, brings each to exactly one terminal state before it
\* advances, leaves the loop only after id end (or because the process is
\* terminated), and eventually returns.
C8_LoopAdvancesAndTerminates ==
    /\ [](pc = "loop" => state = "PENDING" /\ partner_id \in start..(end + 1))
    /\ [](pc = "next" => state \in Terminal /\ partner_id \in start..end)
    /\ [](pc = "ret" => partner_id = end + 1 /\ fetched \subseteq start..end)
    /\ [][(pc \in RunPcs /\ pc' \in RunPcs)
          => \/ partner_id' = partner_id /\ pc # "next"
             \/ /\ partner_id' = partner_id + 1
                /\ pc = "next"
                /\ pc' = "loop"]_vars
    /\ [][(pc \in RunPcs /\ fetched' # fetched /\ pc' # "off")
          => /\ partner_id \notin fetched
             /\ fetched' = fetched \cup {partner_id}]_vars
    /\ [][(pc \in RunPcs /\ pc' \notin RunPcs)
          => pc' = "ret" \/ (pc' = "off" /\ prev'.how = "killed")]_vars
    /\ (pc \in RunPcs) ~> (pc = "ret" \/ (pc = "off" /\ prev.how = "killed"))

\* run has returned over the whole range, with a saved id and a fetched id
\* that gave no Record
C8_Witness ==
    /\ pc = "ret"
    /\ start = 1
    /\ end = MaxId
    /\ saved # {}
    /\ fetched \ saved # {}

\* C9: an id whose URL is in the processed-URL set when its turn comes is
\* skipped: no fetch, and the collection, the set and both files unchanged.
C9_CacheHitNoEffect ==
    [][(pc = "loop" /\ partner_id <= end /\ partner_id \in processed_ids
        /\ pc' # "off")
       => /\ pc' = "next"
          /\ state' = "SKIPPED"
          /\ fetched' = fetched
          /\ UNCHANGED <<all_data, processed_ids, cache_file,
                         output_file>>]_vars

\* an id was skipped on a cache hit in a run that also fetched another id
C9_Witness ==
    /\ pc = "next"
    /\ state = "SKIPPED"
    /\ partner_id \in processed_ids
    /\ partner_id \notin fetched
    /\ fetched # {}

AscendingOrEqual(recs) ==
    \A i, j \in 1..Len(recs) : i < j => recs[i].SourceURL <= recs[j].SourceURL
AppendedBy(recs) == SubSeq(recs, loaded + 1, Len(recs))

\* C10 as stated: the Records of the collection and of the records file are
\* in ascending order of id after any sequence of runs (here even with equal
\* ids tolerated and all writes succeeding).
C10_OutputAscending ==
    writesOk => AscendingOrEqual(all_data) /\ AscendingOrEqual(RecordsOnDisk)

\* C10 amended: the Records a run appends, after those loaded by __init__,
\* are in strictly ascending order of id, in the collection and in the
\* records file as that run leaves it; the order of the whole collection is
\* the order of processing across runs.
C10_AppendedAscending ==
    pc # "off" => /\ Ascending(AppendedBy(all_data))
                  /\ Ascending(AppendedBy(RecordsOnDisk))
                  /\ Loadable(output_file) => IsPrefix(RecordsOnDisk, all_data)

\* a run has saved its second Record
C10_Witness ==
    /\ pc = "next"
    /\ state = "SAVED"
    /\ Len(AppendedBy(all_data)) >= 2
    /\ RecordsOnDisk = all_data

\* C11: when the files loaded by __init__ were consistent or absent, between
\* the processing of two ids every URL of processed_ids is the Source URL of
\* a Record of all_data.
C11_SetWithinCollection ==
    (consistent /\ pc \in RunPcs \cup {"ret"})
    => processed_ids \subseteq Urls(all_data)

\* a run that loaded a consistent pair of files has saved a further id
C11_Witness ==
    /\ consistent
    /\ pc = "next"
    /\ state = "SAVED"
    /\ loaded >= 1
    /\ Cardinality(processed_ids) >= 2

StrictlyIncreasing(s) == \A i, j \in 1..Len(s) : i < j => s[i] < s[j]

\* C12: a completed save of the cache file leaves exactly the URLs of
\* processed_ids, each once, in strictly ascending order of their numeric
\* id; and every complete cache file is in that order.
C12_CacheFileSorted ==
    /\ [](Loadable(cache_file) => StrictlyIncreasing(cache_file.data))
    /\ [][(pc = "cache_write" /\ pc' = "out_open")
          => /\ Loadable(cache_file')
             /\ Range(cache_file'.data) = processed_ids
             /\ Len(cache_file'.data) = Cardinality(processed_ids)
             /\ StrictlyIncreasing(cache_file'.data)]_vars

\* the URL of id 2 was cached by an earlier run, the URL of id 1 is added now
C12_Witness ==
    /\ pc = "out_open"
    /\ partner_id = 1
    /\ loaded >= 1
    /\ cache_file = Full(<<1, 2>>)

\* C19: after run and save_to_json have completed, every Record of the
\* records file has its Source URL in the cache file.
C19_RecordsFileWithinCacheFile ==
    (pc = "off" /\ prev.how = "exit")
    => Urls(RecordsOnDisk) \subseteq CacheOnDisk

\* C20: when run starts the fetch of an id, the Record of every id this run
\* appended before it is in the records file and its URL in the cache file.
C20_FlushedBeforeNextFetch ==
    (pc = "loop" /\ partner_id <= end /\ partner_id \notin processed_ids)
    => \A n \in Urls(AppendedBy(all_data)) :
          n \in Urls(RecordsOnDisk) /\ n \in CacheOnDisk

\* ---- the parsing functions ------------------------------------------------
\* A text is a sequence of characters, each written as a one-character
\* string; a letter with a diacritic is written with a mark after it ("a'"
\* for a-acute, "c^" for c-caron) and "EUR" stands for a character that is
\* not ASCII and has no decomposition. An optional value is None or Some(v).
MaxText == 2      \* length of the texts given to convert_to_english

None == <<>>
Some(v) == <<v>>

crawlVars == <<pc, start, end, partner_id, all_data, processed_ids,
               cache_file, output_file, state, runNo, fetched, loaded,
               writeFailed, retry, pagesOk, writesOk, saved, consistent,
               prev>>

RECURSIVE Flatten(_)
Flatten(ss) == IF ss = <<>> THEN <<>> ELSE Head(ss) \o Flatten(Tail(ss))

\* unicodedata.normalize("NFKD", c) followed by encode("ascii", "ignore"):
\* the base letter of a letter with a diacritic, nothing for a character
\* outside ASCII, the character itself otherwise
AsciiOf(c) ==
    CASE c = "a'" -> <<"a">>
      [] c = "e'" -> <<"e">>
      [] c = "i'" -> <<"i">>
      [] c = "y'" -> <<"y">>
      [] c = "c^" -> <<"c">>
      [] c = "C^" -> <<"C">>
      [] c = "EUR" -> <<>>
      [] OTHER -> <<c>>

ToAscii(t) == Flatten([i \in 1..Len(t) |-> AsciiOf(t[i])])

\* convert_to_english: "if not text: return None", else the ASCII text
convert_to_english(x) ==
    IF x = None \/ x = Some(<<>>) THEN None ELSE Some(ToAscii(x[1]))

RECURSIVE TextsUpTo(_, _)
TextsUpTo(A, n) ==
    IF n = 0 THEN {<<>>}
    ELSE LET shorter == TextsUpTo(A, n - 1)
         IN shorter \cup {Append(t, c) : t \in shorter, c \in A}

ConvertArgs ==
    {[fn |-> "convert_to_english", text |-> x] :
        x \in {None} \cup {Some(t) : t \in TextsUpTo({"a", "a'", "EUR"},
                                                      MaxText)}}

\* convert_to_english is applied to the argument, then to its own result
CallConvert ==
    /\ arg.fn = "convert_to_english"
    /\ Len(res) < 2
    /\ res' = Append(res, convert_to_english(IF res = <<>> THEN arg.text
                                             ELSE res[Len(res)]))
    /\ UNCHANGED <<arg, crawlVars>>

\* ---- str methods used by the parsers ----------------------------------------
Whitespace == {" "}

\* sub in s / s.find(sub) + 1
IndexOf(s, sub) ==
    LET hits == {i \in 1..(Len(s) - Len(sub) + 1) :
                    SubSeq(s, i, i + Len(sub) - 1) = sub}
    IN IF hits = {} THEN 0 ELSE CHOOSE i \in hits : \A j \in hits : i <= j
Contains(s, sub) == sub = <<>> \/ IndexOf(s, sub) # 0
StartsWith(s, pre) == Len(pre) <= Len(s) /\ SubSeq(s, 1, Len(pre)) = pre

\* s.strip(chars)
StripChars(s, chars) ==
    LET keep == {i \in 1..Len(s) : s[i] \notin chars}
    IN IF keep = {} THEN <<>>
       ELSE SubSeq(s, CHOOSE i \in keep : \A j \in keep : i <= j,
                      CHOOSE i \in keep : \A j \in keep : i >= j)
Strip(s) == StripChars(s, Whitespace)

\* s.replace(old, ""), every occurrence from the left
RECURSIVE Remove(_, _)
Remove(s, old) ==
    LET i == IndexOf(s, old)
    IN IF old = <<>> \/ i = 0 THEN s
       ELSE SubSeq(s, 1, i - 1) \o Remove(SubSeq(s, i + Len(old), Len(s)), old)

\* s.split(sep)[0]
BeforeFirst(s, sep) ==
    LET i == IndexOf(s, sep) IN IF i = 0 THEN s ELSE SubSeq(s, 1, i - 1)

\* s.split(",")
RECURSIVE Split(_, _)
Split(s, c) ==
    LET i == IndexOf(s, <<c>>)
    IN IF i = 0 THEN <<s>>
       ELSE <<SubSeq(s, 1, i - 1)>> \o Split(SubSeq(s, i + 1, Len(s)), c)

\* sep.join(parts)
RECURSIVE Join(_, _)
Join(parts, sep) ==
    IF parts = <<>> THEN <<>>
    ELSE IF Len(parts) = 1 THEN parts[1]
    ELSE parts[1] \o sep \o Join(Tail(parts), sep)

UpperLetters ==
    <<"A", "B", "C", "D", "E", "F", "G", "H", "I", "J", "K", "L", "M", "N",
      "O", "P", "Q", "R", "S", "T", "U", "V", "W", "X", "Y", "Z">>
LowerLetters ==
    <<"a", "b", "c", "d", "e", "f", "g", "h", "i", "j", "k", "l", "m", "n",
      "o", "p", "q", "r", "s", "t", "u", "v", "w", "x", "y", "z">>
LowerChar(c) ==
    IF \E i \in 1..26 : UpperLetters[i] = c
    THEN LowerLetters[CHOOSE i \in 1..26 : UpperLetters[i] = c]
    ELSE c
UpperChar(c) ==
    IF \E i \in 1..26 : LowerLetters[i] = c
    THEN UpperLetters[CHOOSE i \in 1..26 : LowerLetters[i] = c]
    ELSE c
\* s.lower(), s.upper()
Lower(s) == [i \in 1..Len(s) |-> LowerChar(s[i])]
Upper(s) == [i \in 1..Len(s) |-> UpperChar(s[i])]

\* ---- the literals of the source ----------------------------------------------
\* scrape_partner, lines 193-213: the labels looked up in the page
LabelBusinessName ==
    <<"O", "b", "c", "h", "o", "d", "n", "e'", " ", "m", "e", "n", "o">>
LabelIco ==
    <<"I", "C^", "O">>
LabelAddress ==
    <<"A", "d", "r", "e", "s", "a", " ", "s", "i'", "d", "l", "a">>
LabelVerificationDate ==
    <<"D", "a'", "t", "u", "m", " ", "o", "v", "e", "r", "e", "n", "i",
      "a">>
LabelPdf ==
    <<"V", "e", "r", "i", "f", "i", "k", "a", "c^", "n", "y'", " ", "d",
      "o", "k", "u", "m", "e", "n", "t", " ", "(", "p", "d", "f", ")">>
\* parse_bo_table, lines 99-104
NameLabel ==
    <<"M", "e", "n", "o", " ", "a", " ", "p", "r", "i", "e", "z", "v", "i",
      "s", "k", "o">>
BirthMarker ==
    <<"D", "a'", "t", "u", "m", " ", "n", "a", "r", "o", "d", "e", "n",
      "i", "a">>
\* get_pdf_url, line 80, and BASE_URL, line 23
PdfBaseUrl ==
    <<"h", "t", "t", "p", "s", ":", "/", "/", "r", "p", "v", "s", ".", "g",
      "o", "v", ".", "s", "k">>

\* parse_address, lines 128-134: the gazetteer, in the order of the list
countries ==
    <<
      <<"S", "l", "o", "v", "e", "n", "s", "k", "a", " ", "r", "e", "p",
        "u", "b", "l", "i", "k", "a">>,
      <<"T", "u", "r", "e", "c", "k", "a", " ", "r", "e", "p", "u", "b",
        "l", "i", "k", "a">>,
      <<"H", "o", "n", "g", "k", "o", "n", "g">>,
      <<"H", "o", "l", "a", "n", "d", "s", "k", "e", " ", "k", "r", "a",
        "l", "o", "v", "s", "t", "v", "o">>,
      <<"P", "o", "l", "s", "k", "a", " ", "r", "e", "p", "u", "b", "l",
        "i", "k", "a">>,
      <<"K", "a", "j", "m", "a", "n", "i", "e", " ", "o", "s", "t", "r",
        "o", "v", "y">>,
      <<"R", "a", "k", "u", "s", "k", "a", " ", "r", "e", "p", "u", "b",
        "l", "i", "k", "a">>,
      <<"T", "a", "l", "i", "a", "n", "s", "k", "a", " ", "r", "e", "p",
        "u", "b", "l", "i", "k", "a">>,
      <<"N", "e", "m", "e", "c", "k", "a", " ", "s", "p", "o", "l", "k",
        "o", "v", "a", " ", "r", "e", "p", "u", "b", "l", "i", "k", "a">>,
      <<"S", "p", "o", "j", "e", "n", "e", " ", "s", "t", "a", "t", "y",
        " ", "a", "m", "e", "r", "i", "c", "k", "e">>,
      <<"S", "p", "o", "j", "e", "n", "e", " ", "a", "r", "a", "b", "s",
        "k", "e", " ", "e", "m", "i", "r", "a", "t", "y">>,
      <<"R", "u", "s", "k", "a", " ", "f", "e", "d", "e", "r", "a", "c",
        "i", "a">>,
      <<"K", "a", "n", "a", "d", "a">>,
      <<"B", "o", "s", "n", "a", " ", "a", " ", "H", "e", "r", "c", "e",
        "g", "o", "v", "i", "n", "a">>,
      <<"I", "n", "d", "i", "c", "k", "a", " ", "r", "e", "p", "u", "b",
        "l", "i", "k", "a">>,
      <<"C", "e", "s", "k", "a", " ", "r", "e", "p", "u", "b", "l", "i",
        "k", "a">>
    >>

\* ---- parse_address -----------------------------------------------------------
Digits == {"0", "1", "2", "3", "4", "5", "6", "7", "8", "9"}
AllDigits(s) == \A i \in 1..Len(s) : s[i] \in Digits

\* re.match(r"(\d{3}\s?\d{2})\s*(.*)", s): group 1 and group 2, or no match
zip_match(s) ==
    IF Len(s) >= 5 /\ AllDigits(SubSeq(s, 1, 5))
    THEN [matched |-> TRUE, group1 |-> SubSeq(s, 1, 5),
          group2 |-> StripChars(SubSeq(s, 6, Len(s)), Whitespace)]
    ELSE IF /\ Len(s) >= 6
            /\ AllDigits(SubSeq(s, 1, 3))
            /\ s[4] \in Whitespace
            /\ AllDigits(SubSeq(s, 5, 6))
    THEN [matched |-> TRUE, group1 |-> SubSeq(s, 1, 6),
          group2 |-> StripChars(SubSeq(s, 7, Len(s)), Whitespace)]
    ELSE [matched |-> FALSE, group1 |-> <<>>, group2 |-> <<>>]

\* "x if x else None"
OrNone(t) == IF t = <<>> THEN None ELSE Some(t)

\* the dict {} of line 123: a mapping without keys
EmptyDict == [k \in {} |-> None]

\* lines 137-141: the stripped parts, and the tail joined again
AddressParts(address) ==
    LET raw == Split(address, ",") IN [i \in 1..Len(raw) |-> Strip(raw[i])]
ZipCityCountry(address) == Join(Tail(AddressParts(address)), <<",", " ">>)

\* lines 150-155: the indices of the gazetteer entries contained in the
\* remainder, compared in lower case
CountryHits(city_country) ==
    {i \in 1..Len(countries) :
        Contains(Lower(city_country), Lower(countries[i]))}
FirstHit(city_country) ==
    CHOOSE i \in CountryHits(city_country) :
        \A j \in CountryHits(city_country) : i <= j

parse_address(full_address) ==
    IF full_address = None \/ full_address = Some(<<>>) THEN EmptyDict
    ELSE
      LET address == Strip(full_address[1])
          parts == AddressParts(address)
          m == zip_match(ZipCityCountry(address))
          fallback == [Address |-> Some(address), PostalCode |-> None,
                       City |-> None, Country |-> None]
      IN IF Len(parts) >= 2 /\ m.matched
         THEN LET postal_code == Strip(m.group1)
                  found == CountryHits(m.group2) # {}
                  c == countries[FirstHit(m.group2)]
                  city_country ==
                      IF found
                      THEN Strip(StripChars(Remove(m.group2, c), {",", " "}))
                      ELSE m.group2
              IN [Address |-> Some(parts[1]),
                  PostalCode |-> Some(postal_code),
                  City |-> OrNone(city_country),
                  Country |-> IF found THEN Some(c) ELSE None]
         ELSE fallback

\* The addresses handed to parse_address: a street, then a postal code (with or
\* without the inner space, or none), a city and a country name in the three
\* letter cases, and the degenerate inputs.
MaxCountries == 2
SampleStreet == <<"H", "l", "a", "v", "n", "a", " ", "1">>
SampleCity == <<"B", "r", "a", "t", "i", "s", "l", "a", "v", "a">>
SampleZips == {<<"8", "1", "1", " ", "0", "1">>, <<"8", "1", "1", "0", "1">>, <<>>}
GazetteerSample == {countries[i] : i \in 1..MaxCountries}
CountryForms ==
    {<<>>} \cup UNION {{c, Lower(c), Upper(c)} : c \in GazetteerSample}
AddressTexts ==
    {<<>>, SampleStreet} \cup
    {SampleStreet \o <<",", " ">> \o z \o <<" ">> \o city
        \o (IF form = <<>> THEN <<>> ELSE <<",", " ">> \o form) :
        z \in SampleZips, city \in {<<>>, SampleCity} \cup GazetteerSample,
        form \in CountryForms}
AddressArgs ==
    {[fn |-> "parse_address", text |-> x] :
        x \in {None} \cup {Some(t) : t \in AddressTexts}}

CallParseAddress ==
    /\ arg.fn = "parse_address"
    /\ res = <<>>
    /\ res' = <<parse_address(arg.text)>>
    /\ UNCHANGED <<arg, crawlVars>>

\* ---- the page and its lookups -------------------------------------------------
\* A response is a status code and the page: the div.form-group elements in
\* document order, each with the text of its label, of its
\* p.form-control-static and the href of its link (None where the element is
\* missing), and the table.table element (None where missing) with its tbody
\* rows, a row being the texts of its td elements.

\* line 184-185: the whole page text goes through convert_to_english before
\* it is parsed, so every text of the document does
NormalizeOpt(x) == IF x = None THEN None ELSE Some(ToAscii(x[1]))
NormalizeGroup(g) ==
    [label |-> NormalizeOpt(g.label), value |-> NormalizeOpt(g.value),
     href |-> NormalizeOpt(g.href)]
NormalizeTable(t) ==
    IF t = None THEN None
    ELSE Some([tbody |-> t[1].tbody,
               rows |-> [i \in 1..Len(t[1].rows) |->
                          [j \in 1..Len(t[1].rows[i]) |->
                              ToAscii(t[1].rows[i][j])]]])
Soup(page) ==
    [groups |-> [i \in 1..Len(page.groups) |-> NormalizeGroup(page.groups[i])],
     table |-> NormalizeTable(page.table)]

\* the groups whose label contains label_text, in document order
LabelledGroups(soup, label_text) ==
    {i \in 1..Len(soup.groups) :
        /\ soup.groups[i].label # None
        /\ Contains(Strip(soup.groups[i].label[1]), label_text)}

get_field(soup, label_text) ==
    LET hits == {i \in LabelledGroups(soup, label_text) :
                    soup.groups[i].value # None}
    IN IF hits = {} THEN None
       ELSE Some(Strip(soup.groups[CHOOSE i \in hits :
                                      \A j \in hits : i <= j].value[1]))

get_pdf_url(soup, label_text) ==
    LET hits == {i \in LabelledGroups(soup, label_text) :
                    soup.groups[i].href # None}
    IN IF hits = {} THEN None
       ELSE Some(PdfBaseUrl \o soup.groups[CHOOSE i \in hits :
                                      \A j \in hits : i <= j].href[1])

\* lines 97-117: the owner of one row with four or more columns
OwnerOfRow(cols) ==
    LET text == Strip(cols[1])
        first_col == IF StartsWith(text, NameLabel)
                     THEN Strip(Remove(text, NameLabel))
                     ELSE text
        name_part == Strip(BeforeFirst(first_col, BirthMarker))
    IN [Name |-> convert_to_english(Some(name_part)),
        DateOfBirth |-> convert_to_english(Some(Strip(cols[2]))),
        Nationality |-> convert_to_english(Some(Strip(cols[3]))),
        AddressOfBO |-> convert_to_english(Some(Strip(cols[4])))]

\* line 96
RowCounts(cols) == Len(cols) >= 4

RECURSIVE OwnersOf(_)
OwnersOf(rows) ==
    IF rows = <<>> THEN <<>>
    ELSE (IF RowCounts(Head(rows)) THEN <<OwnerOfRow(Head(rows))>> ELSE <<>>)
         \o OwnersOf(Tail(rows))

\* parse_bo_table: bo_table.find("tbody") is None in a table without tbody, and
\* the call on it raises
parse_bo_table(soup) ==
    IF soup.table = None THEN [raised |-> FALSE, bos |-> <<>>]
    ELSE IF ~soup.table[1].tbody THEN [raised |-> TRUE, bos |-> <<>>]
    ELSE [raised |-> FALSE, bos |-> OwnersOf(soup.table[1].rows)]

\* Variant of HasOwners that lets a page without owners through.
HasOwners_Always(bos) == TRUE
\* line 188: "if not bos" is the negation of this
HasOwners(bos) == bos # <<>>

NoResult == [kind |-> "none"]
Raised == [kind |-> "raise"]

scrape_partner(id, response) ==
    IF response.status # 200 THEN NoResult
    ELSE
      LET soup == Soup(response.page)
          t == parse_bo_table(soup)
          bos == t.bos
      IN IF t.raised THEN Raised
         ELSE IF ~HasOwners(bos) THEN NoResult
         ELSE
           [kind |-> "record",
            BusinessName |->
                convert_to_english(get_field(soup, LabelBusinessName)),
            ICO |-> convert_to_english(get_field(soup, LabelIco)),
            Address |->
                parse_address(convert_to_english(get_field(soup, LabelAddress))),
            VerificationDate |->
                convert_to_english(get_field(soup, LabelVerificationDate)),
            VerificationDocumentURL |->
                convert_to_english(get_pdf_url(soup, LabelPdf)),
            BeneficialOwners |->
                [i \in 1..Len(bos) |->
                    [bos[i] EXCEPT !.AddressOfBO = parse_address(@)]],
            SourceURL |-> id]

\* ---- the pages handed to scrape_partner --------------------------------------
MaxGroups == 2
MaxRows == 2
ValueBusinessName ==
    <<"A", "c^", "m", "e">>
ValueIco ==
    <<"1", "2", "3">>
ValueAddress ==
    <<"H", "l", "a", "v", "n", "a", " ", "1", ",", " ", "8", "1", "1", " ",
      "0", "1", " ", "B", "r", "a", "t", "i", "s", "l", "a", "v", "a">>
ValueDate ==
    <<"1", ".", "1", ".", "2", "0", "2", "0">>
HrefPdf ==
    <<"/", "d", ".", "p", "d", "f">>
LabelBusinessNameAscii ==
    <<"O", "b", "c", "h", "o", "d", "n", "e", " ", "m", "e", "n", "o">>
FirstColumnLabelled ==
    <<"M", "e", "n", "o", " ", "a", " ", "p", "r", "i", "e", "z", "v", "i",
      "s", "k", "o", " ", "J", "a", "n", " ", "N", "o", "v", "a'", "k",
      " ", "D", "a'", "t", "u", "m", " ", "n", "a", "r", "o", "d", "e",
      "n", "i", "a", " ", "1", ".", "1", ".", "1", "9", "8", "0">>
NameLabelled ==
    <<"J", "a", "n", " ", "N", "o", "v", "a", "k">>
FirstColumnPlain ==
    <<"E", "v", "a">>
ColumnBirth ==
    <<"1", ".", "1", ".", "1", "9", "8", "0">>
ColumnNationality ==
    <<"S", "R">>
ColumnAddress ==
    <<"H", "l", "a", "v", "n", "a", " ", "1", ",", " ", "8", "1", "1", "0",
      "1", " ", "N", "i", "t", "r", "a">>
Group(l, v, h) == [label |-> l, value |-> v, href |-> h]
SampleGroups ==
    {Group(Some(LabelBusinessName), Some(ValueBusinessName), None),
     Group(Some(LabelIco), Some(ValueIco), None),
     Group(Some(LabelAddress), Some(ValueAddress), None),
     Group(Some(LabelVerificationDate), Some(ValueDate), None),
     Group(Some(LabelPdf), None, Some(HrefPdf)),
     Group(Some(LabelBusinessNameAscii), Some(ValueIco), None),
     Group(Some(LabelBusinessName), None, None),
     Group(None, Some(ValueIco), None)}
SampleRows ==
    {<<FirstColumnLabelled, ColumnBirth, ColumnNationality, ColumnAddress>>,
     <<FirstColumnPlain, ColumnBirth, ColumnNationality, <<>>>>,
     <<FirstColumnPlain, ColumnBirth, ColumnNationality>>}

RECURSIVE SeqsUpTo(_, _)
SeqsUpTo(S, n) ==
    IF n = 0 THEN {<<>>}
    ELSE LET shorter == SeqsUpTo(S, n - 1)
         IN shorter \cup {Append(q, x) : q \in shorter, x \in S}

SampleTables ==
    {None, Some([tbody |-> FALSE, rows |-> <<>>])} \cup
    {Some([tbody |-> TRUE, rows |-> r]) : r \in SeqsUpTo(SampleRows, MaxRows)}
SamplePages ==
    {[groups |-> g, table |-> t] :
        g \in SeqsUpTo(SampleGroups, MaxGroups), t \in SampleTables}
ScrapeArgs ==
    {[fn |-> "scrape_partner", id |-> i,
      response |-> [status |-> 200, page |-> p]] : i \in Ids, p \in SamplePages}
    \cup
    {[fn |-> "scrape_partner", id |-> i,
      response |-> [status |-> 404, page |-> [groups |-> <<>>, table |-> None]]] :
        i \in Ids}

CallScrape ==
    /\ arg.fn = "scrape_partner"
    /\ res = <<>>
    /\ res' = <<scrape_partner(arg.id, arg.response)>>
    /\ UNCHANGED <<arg, crawlVars>>

\* ---- the specification of the parsing functions --------------------------------
ParseInit ==
    /\ pc = "off"
    /\ start = 0
    /\ end = 0
    /\ partner_id = 0
    /\ all_data = <<>>
    /\ processed_ids = {}
    /\ cache_file = Absent
    /\ output_file = Absent
    /\ state = "NONE"
    /\ runNo = 0
    /\ fetched = {}
    /\ loaded = 0
    /\ writeFailed = 0
    /\ retry = {}
    /\ pagesOk = TRUE
    /\ writesOk = TRUE
    /\ saved = {}
    /\ consistent = TRUE
    /\ prev = NoRun
    /\ arg \in ConvertArgs \cup AddressArgs \cup ScrapeArgs
    /\ res = <<>>
ParseNext == CallConvert \/ CallParseAddress \/ CallScrape
ParseSpec == ParseInit /\ [][ParseNext]_vars

\* ---- claims about the parsing functions -----------------------------------------
AddressKeys == {"Address", "PostalCode", "City", "Country"}
Scraped == arg.fn = "scrape_partner" /\ res # <<>>
ScrapedRecord == Scraped /\ res[1].kind = "record"
PageGroups == arg.response.page.groups
PageRows ==
    IF arg.response.page.table = None THEN <<>>
    ELSE arg.response.page.table[1].rows
CountedRows == {i \in 1..Len(PageRows) : Len(PageRows[i]) >= 4}
\* the page has a group labelled with label whose element part is present
HasGroup(label, part) ==
    \E i \in 1..Len(PageGroups) :
        /\ PageGroups[i].label # None
        /\ Contains(PageGroups[i].label[1], label)
        /\ PageGroups[i][part] # None

\* C13: scrape_partner returns a Record only for a page whose owner table has
\* at least one body row with four or more columns; the Record then has one
\* owner for each such row and none for the shorter rows, so its Beneficial
\* Owners sequence is not empty; a page without such a row yields no Record.
C13_RecordHasOwner ==
    Scraped =>
        /\ res[1].kind = "record" =>
              /\ CountedRows # {}
              /\ Len(res[1].BeneficialOwners) = Cardinality(CountedRows)
              /\ res[1].BeneficialOwners # <<>>
        /\ CountedRows = {} => res[1].kind # "record"
\* a Record made from a table with one short row and one row of four columns
C13_Witness ==
    /\ ScrapedRecord
    /\ Len(PageRows) = 2
    /\ Cardinality(CountedRows) = 1
    /\ Len(res[1].BeneficialOwners) = 1

\* C14: for a page with an owner and a group labelled for the business name
\* (likewise registration number, verification date, business address, PDF
\* link) that has a value element, the Record carries a value in that field,
\* not null.
C14_LabelledFieldsFound ==
    ScrapedRecord =>
        /\ HasGroup(LabelBusinessName, "value") => res[1].BusinessName # None
        /\ HasGroup(LabelIco, "value") => res[1].ICO # None
        /\ HasGroup(LabelVerificationDate, "value")
              => res[1].VerificationDate # None
        /\ HasGroup(LabelAddress, "value") => DOMAIN res[1].Address # {}
        /\ HasGroup(LabelPdf, "href") => res[1].VerificationDocumentURL # None

\* C15: for an owner row whose first column is the label phrase, a name, the
\* date-of-birth marker and a birth date, the owner's stored name is exactly
\* the name.
C15_OwnerNameIsolated ==
    ScrapedRecord =>
        \A i \in CountedRows :
            PageRows[i][1] = FirstColumnLabelled =>
                res[1].BeneficialOwners[
                    Cardinality({j \in CountedRows : j <= i})].Name
                  = Some(NameLabelled)

\* C16: convert_to_english applied to its own result gives that result again,
\* for every text, and convert_to_english(None) is None.
C16_ConvertIdempotent ==
    arg.fn = "convert_to_english" =>
        /\ Len(res) = 2 => res[2] = res[1]
        /\ (Len(res) >= 1 /\ arg.text = None) => res[1] = None

\* C17: for an address whose tail starts with a postal code and whose
\* remainder contains a gazetteer name in any letter case, Country is the
\* first such entry of the list and City no longer contains that name.
C17_CountryRemoved ==
    (arg.fn = "parse_address" /\ res # <<>>
        /\ arg.text # None /\ arg.text # Some(<<>>)) =>
        LET address == Strip(arg.text[1])
            m == zip_match(ZipCityCountry(address))
        IN (Len(AddressParts(address)) >= 2 /\ m.matched
                /\ CountryHits(m.group2) # {}) =>
             LET c == countries[FirstHit(m.group2)]
             IN /\ res[1].Country = Some(c)
                /\ \/ res[1].City = None
                   \/ ~Contains(Lower(res[1].City[1]), Lower(c))

\* C18: parse_address of the empty text and of None return the same Address
\* with the four fields Address, PostalCode, City and Country, each null, and
\* every Address object of a Record has these four keys.
C18_EmptyAddressAllNull ==
    /\ (arg.fn = "parse_address" /\ res # <<>>
            /\ (arg.text = None \/ arg.text = Some(<<>>))) =>
          /\ DOMAIN res[1] = AddressKeys
          /\ \A k \in DOMAIN res[1] : res[1][k] = None
    /\ ScrapedRecord =>
          /\ DOMAIN res[1].Address = AddressKeys
          /\ \A i \in 1..Len(res[1].BeneficialOwners) :
                DOMAIN res[1].BeneficialOwners[i].AddressOfBO = AddressKeys

====
